---- MODULE Spec2Model ----
(***************************************************************************)
(* Endpoint health & failover engine of the Aurora DSQL multi-region       *)
(* routing sample.  Two connection managers are modelled side by side:     *)
(*   "simple" : DSQLConnectionManager        (dsql_connection_manager.py)  *)
(*   "hybrid" : DSQLHybridConnectionManager  (hybrid_failover_approach.py) *)
(* A get_connection call is unfolded into its steps (health evaluation,    *)
(* latency measurement, ranking, per-endpoint mint and connection-open).   *)
(* The external collaborators (TCP connect, Route 53 status query, token   *)
(* minting, psycopg2.connect) answer nondeterministically.                 *)
(*                                                                         *)
(* Specifications:                                                         *)
(*   Spec       one get_connection call on a freshly constructed manager   *)
(*   SpecHealth check_route53_health called repeatedly while time passes   *)
(*   SpecFresh  one check_route53_health call on an empty cache            *)
(*   SpecNew    the constructors, over arguments and configuration files   *)
(*   SpecFields get_connection over endpoint dictionaries lacking a key    *)
(*   SpecParams get_connection over configured connection settings         *)
(*   SpecEarlier get_connection on a manager an earlier call has used      *)
(*   SpecMint   the token generators and the records they log              *)
(*   SpecStrategy is_endpoint_healthy called repeatedly while time passes  *)
(*   SpecProbe  the probes called on their own, over every retry count     *)
(*   SpecConcurrent two threads calling get_connection on one manager      *)
(*   SpecEvaluators two threads calling check_route53_health on one id     *)
(*   SpecLive   one get_connection call that is always run to its end      *)
(*   SpecBest   get_best_endpoint called after a get_connection call       *)
(*   SpecFrame  a health evaluation, get_connection and get_best_endpoint  *)
(***************************************************************************)
EXTENDS Integers, Sequences, FiniteSets, TLC

\* ------------------------------------------------------------- bounds
NumEndpoints == 2        \* endpoints in the configured list
MaxLatency == 2          \* a successful TCP connect takes 1..MaxLatency time units
MaxTime == 1             \* the clock (time.time()) runs over 0..MaxTime
MaxObservations == 2     \* observations in one Route 53 status response
health_check_ttl == 1    \* constructor argument health_check_ttl, in clock units
MaxEvals == 3            \* direct check_route53_health calls a caller makes

\* ---------------------------------------------------- program constants
DefaultPriority == 999   \* x.get('priority', 999)
latency_test_retries == 3 \* latency_test_retries: int = 3

\* ------------------------------------------------------------ helpers
Hosts == 1..NumEndpoints          \* an endpoint's hostname is its position in the configuration

\* An optional dictionary key: <<>> when the key is absent, <<v>> when it holds v.
Absent == <<>>
Some(v) == <<v>>
Get(opt, default) == IF opt = Absent THEN default ELSE opt[1]

RECURSIVE Gcd(_, _)
Gcd(a, b) == IF b = 0 THEN a ELSE Gcd(b, a % b)
RECURSIVE LcmUpTo(_)
LcmUpTo(n) == IF n <= 1 THEN 1 ELSE LET l == LcmUpTo(n - 1) IN (l * n) \div Gcd(l, n)

\* Latencies of the hybrid manager are means of up to latency_test_retries samples;
\* they are held exactly as multiples of 1/Scale time units.
Scale == LcmUpTo(latency_test_retries)
\* float('inf'): ordered above every finite latency either manager can measure.
Inf == MaxLatency * Scale * 1000 + 1

\* Declared priorities: one below and one above the default of x.get('priority', 999).
Priorities == {1, DefaultPriority + 1}

\* Tokens.  The minting service returns a new token at every call: the token of the
\* n-th minting call of a get_connection call is n.  No token is 0, and the placeholder
\* f"test-auth-token-{cluster_id}-{region}" of an endpoint is the negated hostname.
NoToken == 0
SimulatedToken(h) == 0 - h

\* ------------------------------------------------ connection parameters
\* A dictionary of connection parameters or settings: each key absent or holding a value.
ParamKeys ==
    {"host", "port", "database", "user", "password", "connect_timeout", "sslmode",
     "application_name", "keepalives"}
NoParams == [k \in ParamKeys |-> Absent]

DefaultPort == 5432           \* the port of every configured endpoint; endpoint.get("port", 5432)
DefaultConnectTimeout == 5    \* connect_timeout=5 / connection_timeout: int = 5
RequestDatabase == "postgres" \* the database and user arguments of get_connection
RequestUser == "admin"

\* Values a configuration file may put under the keys of connection_settings.
OtherHost == 0
OtherPort == 1
OtherDatabase == "settings_db"
OtherUser == "settings_user"
SettingsPassword == 0 - (NumEndpoints + 1)

\* self.connection_settings after construction from an endpoints argument: nothing in
\* the simple manager; the timeout, application name and keep-alive options (keepalives
\* stands for the four keepalives* keys) in the hybrid manager.
DefaultSettings(m) ==
    IF m = "simple" THEN NoParams
    ELSE [NoParams EXCEPT !["connect_timeout"] = Some(DefaultConnectTimeout),
                          !["application_name"] = Some("dsql-hybrid-router"),
                          !["keepalives"] = Some(1)]

\* connection_settings as a configuration file may give them: empty, an sslmode, or one
\* of the keys get_connection sets itself.
SettingsSamples ==
    {NoParams,
     [NoParams EXCEPT !["sslmode"] = Some("require")],
     [NoParams EXCEPT !["sslmode"] = Some("disable")],
     [NoParams EXCEPT !["application_name"] = Some("app")],
     [NoParams EXCEPT !["connect_timeout"] = Some(DefaultConnectTimeout + 1)],
     [NoParams EXCEPT !["host"] = Some(OtherHost)],
     [NoParams EXCEPT !["port"] = Some(OtherPort)],
     [NoParams EXCEPT !["database"] = Some(OtherDatabase)],
     [NoParams EXCEPT !["user"] = Some(OtherUser)],
     [NoParams EXCEPT !["password"] = Some(SettingsPassword)]}

\* simple: conn_params, then every setting whose key is not in conn_params and is not
\* connect_timeout.
simple_conn_params(h, port, token, settings) ==
    LET conn_params ==
            [NoParams EXCEPT !["host"] = Some(h),
                             !["port"] = Some(port),
                             !["database"] = Some(RequestDatabase),
                             !["user"] = Some(RequestUser),
                             !["password"] = Some(token),
                             !["connect_timeout"] = Some(DefaultConnectTimeout),
                             !["sslmode"] = Some("require")]
    IN  [k \in ParamKeys |->
            IF conn_params[k] = Absent /\ k # "connect_timeout" THEN settings[k]
            ELSE conn_params[k]]

\* hybrid: {'host': ..., 'port': ..., 'database': ..., 'user': ..., 'password': ...,
\* **self.connection_settings}: a key of the settings replaces the key set before it.
hybrid_conn_params(h, port, token, settings) ==
    LET conn_params ==
            [NoParams EXCEPT !["host"] = Some(h),
                             !["port"] = Some(port),
                             !["database"] = Some(RequestDatabase),
                             !["user"] = Some(RequestUser),
                             !["password"] = Some(token)]
    IN  [k \in ParamKeys |-> IF settings[k] # Absent THEN settings[k] ELSE conn_params[k]]

\* Failure reasons carried by the exceptions of an attempt.
MintError == "mint_error"
OpenError == "open_error"
KeyError == "key_error"

VARIABLES
    mgr,                 \* which manager class this instance is
    dsql_available,      \* self.dsql_available (hybrid): boto3 has a DSQL client
    connection_settings, \* self.connection_settings
    retries,             \* self.latency_test_retries
    log,                 \* the records the token generator gave to the logger
    token_text,          \* the token the token generator returned, as text
    probe,               \* the record of the last health evaluation or probe called on its own
    callers,             \* the locals of the calls that threads run side by side
    evaluators,          \* the locals of the check_route53_health calls threads run side by side
    best,                \* what get_best_endpoint returned
    endpoints,           \* self.endpoints: the list of endpoint dictionaries
    health_check_cache,  \* self.health_check_cache: id -> (result, timestamp)
    now,                 \* time.time()
    pc,                  \* position of the running get_connection call
    idx,                 \* position of the running loop
    healthy_endpoints,   \* local healthy_endpoints (references into endpoints)
    target_endpoints,    \* the list the attempt loop iterates
    errors,              \* local errors (hybrid)
    last_exception,      \* local last_exception (simple)
    auth_token,          \* local auth_token (hybrid) / token (simple)
    result,              \* what the call returned or raised
    trace,               \* external calls (mint, open) the running call has made
    health_eval,         \* health result evaluated for each endpoint in the running call
    probe_lat,           \* latency measured for each endpoint in the running call
    probe_mode,          \* how it was measured: "single" probe or "mean" over the retries
    evals,               \* the check_route53_health calls a caller made directly, in order
    fresh,               \* one check_route53_health call on an empty cache: query and result
    ctor                 \* the arguments and configuration files a constructor call is given

vars == <<mgr, dsql_available, connection_settings, retries, log, token_text, probe, callers, evaluators, best, auth_token, endpoints, health_check_cache, now, pc, idx, healthy_endpoints,
          target_endpoints, errors, last_exception, result, trace, health_eval,
          probe_lat, probe_mode, evals, fresh, ctor>>

\* What a get_connection call leaves alone: the record of calls made outside it.
observed == <<log, token_text, probe, callers, evaluators, best>>
aux == <<dsql_available, connection_settings, retries, evals, fresh, ctor, observed>>

locals == <<healthy_endpoints, target_endpoints, errors, last_exception, auth_token>>

\* ------------------------------------------------------------ ranking
\* Python's comparison of two key tuples of the same length: lexicographic.
RECURSIVE TupleLess(_, _)
TupleLess(a, b) ==
    IF a = <<>> \/ b = <<>> THEN FALSE
    ELSE IF Head(a) < Head(b) THEN TRUE
    ELSE IF Head(b) < Head(a) THEN FALSE
    ELSE TupleLess(Tail(a), Tail(b))

\* A sort that is not stable: x goes in front of the elements it compares equal to.
RECURSIVE InsertSorted_Unstable(_, _, _)
InsertSorted_Unstable(s, x, key) ==
    IF s = <<>> THEN <<x>>
    ELSE IF ~TupleLess(key[Head(s)], key[x]) THEN <<x>> \o s
    ELSE <<Head(s)>> \o InsertSorted_Unstable(Tail(s), x, key)

\* One insertion of list.sort / sorted: x goes behind every element that does not
\* compare greater than it, so equal keys keep the order they arrived in (stable).
RECURSIVE InsertSorted(_, _, _)
InsertSorted(s, x, key) ==
    IF s = <<>> THEN <<x>>
    ELSE IF TupleLess(key[x], key[Head(s)]) THEN <<x>> \o s
    ELSE <<Head(s)>> \o InsertSorted(Tail(s), x, key)

\* sorted(s, key=...) and s.sort(key=...): a stable ascending sort by key.
RECURSIVE sorted(_, _)
sorted(s, key) ==
    IF s = <<>> THEN <<>>
    ELSE InsertSorted(sorted(SubSeq(s, 1, Len(s) - 1), key), s[Len(s)], key)

\* key=lambda e: e.get("latency", float('inf'))
SimpleSortKey(eps) == [h \in Hosts |-> <<Get(eps[h].latency, Inf)>>]

\* key=lambda x: (x['latency'], x.get('priority', 999))
HybridSortKey(eps) ==
    [h \in Hosts |-> <<Get(eps[h].latency, Inf), Get(eps[h].priority, DefaultPriority)>>]

\* A filter that lets every endpoint through, healthy or not.
SimpleHealthyFilter_All(eps) == [h \in Hosts |-> h]

\* [e for e in self.endpoints if e.get("is_healthy", False)]
SimpleHealthyFilter(eps) == SelectSeq([h \in Hosts |-> h], LAMBDA h : Get(eps[h].is_healthy, FALSE))

\* A target list that is always the whole configured list, in configured order.
SimpleTargets_WholeList(eps) == [h \in Hosts |-> h]

\* The list the simple manager's attempt loop iterates: the healthy endpoints sorted by
\* latency, or the whole configured list when none is healthy.
SimpleTargets(eps) ==
    LET healthy == SimpleHealthyFilter(eps)
    IN  IF healthy = <<>> THEN [h \in Hosts |-> h]
        ELSE sorted(healthy, SimpleSortKey(eps))

\* -------------------------------------------------------- measurement
\* A TCP connect either fails (0) or succeeds after 1..MaxLatency time units.
Failed == 0
Samples == 0..MaxLatency
\* An error inside a probe that is none of the expected network failures.
Unexpected == 0 - 1
Outcomes == Samples \cup {Unexpected}
Succeeded(outcome) == outcome \notin {Failed, Unexpected}

\* A probe that reports the slowest successful connect as unhealthy.
measure_endpoint_SlowIsUnhealthy(sample) ==
    IF sample \in {Failed, Unexpected} THEN <<Inf, FALSE>>
    ELSE <<sample * 1000, sample < MaxLatency>>

\* _measure_endpoint: (latency in ms, True) on a connect, (inf, False) on any error.
measure_endpoint(sample) ==
    IF Succeeded(sample) THEN <<sample * 1000, TRUE>> ELSE <<Inf, FALSE>>

RECURSIVE SumSeq(_)
SumSeq(s) == IF s = <<>> THEN 0 ELSE Head(s) + SumSeq(Tail(s))

\* measure_latency: the mean of the successful attempts among the retries, inf if none.
measure_latency(samples) ==
    LET latencies == SelectSeq(samples, Succeeded)
    IN  IF latencies # <<>> THEN (SumSeq(latencies) * Scale) \div Len(latencies)
        ELSE Inf

\* ------------------------------------------------------------- health
\* A Python string is the sequence of its characters.
UpperCase == <<"A", "B", "C", "D", "E", "F", "G", "H", "I", "J", "K", "L", "M", "N", "O", "P", "Q", "R", "S", "T", "U", "V", "W", "X", "Y", "Z">>
LowerCase == <<"a", "b", "c", "d", "e", "f", "g", "h", "i", "j", "k", "l", "m", "n", "o", "p", "q", "r", "s", "t", "u", "v", "w", "x", "y", "z">>
\* str.lower() on one character and on a string (ASCII letters).
LowerOf ==
    [c \in {UpperCase[k] : k \in 1..Len(UpperCase)} |->
        LowerCase[CHOOSE k \in 1..Len(UpperCase) : UpperCase[k] = c]]
lower_char(c) == IF c \in DOMAIN LowerOf THEN LowerOf[c] ELSE c
lower(s) == [k \in 1..Len(s) |-> lower_char(s[k])]
\* str.startswith(prefix)
startswith(s, prefix) == Len(s) >= Len(prefix) /\ SubSeq(s, 1, Len(prefix)) = prefix

\* 'success'
success == <<"s", "u", "c", "c", "e", "s", "s">>

\* Status texts an observation may carry.
StatusSuccessOK == <<"S", "u", "c", "c", "e", "s", "s", ":", " ", "O", "K">>
StatusSUCCESS == <<"S", "U", "C", "C", "E", "S", "S">>
StatusLowerSuccess == <<"s", "u", "c", "c", "e", "s", "s">>
StatusSucces == <<"S", "u", "c", "c", "e", "s">>
StatusUnsuccess == <<"U", "n", "s", "u", "c", "c", "e", "s", "s">>
StatusFailure == <<"F", "a", "i", "l", "u", "r", "e">>
StatusFAILURE == <<"F", "A", "I", "L", "U", "R", "E">>
StatusEmpty == <<>>

\* The statuses of the responses drawn while a call runs, and the wider sample the
\* classification of one response is checked on.
Statuses == {StatusSuccessOK, StatusFailure}
StatusSamples ==
    {StatusSuccessOK, StatusSUCCESS, StatusLowerSuccess, StatusSucces, StatusUnsuccess,
     StatusFailure, StatusFAILURE, StatusEmpty}

\* A test of the prefix that does not lower the status first.
StartsWithSuccess_CaseSensitive(status) == startswith(status, success)

\* status.lower().startswith('success')
StartsWithSuccess(status) == startswith(lower(status), success)

RECURSIVE SeqsUpTo(_, _)
SeqsUpTo(S, n) ==
    IF n = 0 THEN {<<>>}
    ELSE LET shorter == SeqsUpTo(S, n - 1)
         IN  shorter \cup {Append(s, x) : s \in {t \in shorter : Len(t) = n - 1}, x \in S}

\* What get_health_check_status does: raise (ok = FALSE), or return a response
\* carrying a list of observation statuses.
Responses ==
    {[ok |-> FALSE, observations |-> <<>>]}
        \cup {[ok |-> TRUE, observations |-> o] : o \in SeqsUpTo(Statuses, MaxObservations)}

\* Responses over the wider sample of status texts.
SampleResponses ==
    {[ok |-> FALSE, observations |-> <<>>]}
        \cup {[ok |-> TRUE, observations |-> o] : o \in SeqsUpTo(StatusSamples, MaxObservations)}

\* A lookup that never finds an entry: every evaluation queries.
CacheHit_Never(cache, id, t) == FALSE

\* A lookup that still serves an entry whose age has reached the TTL.
CacheHit_Inclusive(cache, id, t) ==
    /\ cache[id] # Absent
    /\ t - cache[id][1][2] <= health_check_ttl

\* The cache lookup of check_route53_health: a hit when the entry is younger than the TTL.
CacheHit(cache, id, t) ==
    /\ cache[id] # Absent
    /\ t - cache[id][1][2] < health_check_ttl

\* check_route53_health on a fresh query: the health the response yields.
FreshHealth(resp) ==
    IF ~resp.ok THEN FALSE
    ELSE IF resp.observations = <<>> THEN FALSE
    ELSE Len(SelectSeq(resp.observations, StartsWithSuccess)) > 0

\* check_route53_health: the boolean it returns.
check_route53_health(cache, id, t, resp) ==
    IF CacheHit(cache, id, t) THEN cache[id][1][1] ELSE FreshHealth(resp)

\* A cache that also stores the failure of a query that raised.
cache_after_CachesErrors(cache, id, t, resp) ==
    IF cache[id] # Absent /\ t - cache[id][1][2] < health_check_ttl THEN cache
    ELSE [cache EXCEPT ![id] = Some(<<FreshHealth(resp), t>>)]

\* check_route53_health: the cache it leaves (an error or an empty response returns
\* before the cache is written).
cache_after(cache, id, t, resp) ==
    IF CacheHit(cache, id, t) \/ ~resp.ok \/ resp.observations = <<>> THEN cache
    ELSE [cache EXCEPT ![id] = Some(<<FreshHealth(resp), t>>)]

\* is_endpoint_healthy: the Route 53 strategy is taken when the dictionary has a
\* health_check_id that is truthy (not the empty string).
EmptyId == 0
UsesRoute53_Never(e) == FALSE
UsesRoute53(e) == e.health_check_id # Absent /\ e.health_check_id[1] # EmptyId

\* ------------------------------------------------------------ initial
\* The keys the managers read with endpoint[...], which raises KeyError on a missing key.
RequiredFields == {"hostname", "port", "region", "cluster_id"}

\* Endpoint dictionaries.  "missing" is the set of required keys the dictionary lacks
\* (the hostname field then only tells the endpoints of the model apart).
EndpointRecordsOver(missing_sets) ==
    [hostname : Hosts,
     priority : {Absent} \cup {Some(p) : p \in Priorities},
     health_check_id : {Absent} \cup {Some(h) : h \in Hosts},
     latency : {Absent},
     is_healthy : {Absent},
     missing : missing_sets]

\* Complete endpoint dictionaries, and dictionaries that may lack one required key.
EndpointRecords == EndpointRecordsOver({{}})
IncompleteRecords == EndpointRecordsOver({{}} \cup {{f} : f \in RequiredFields})

NoResult == [kind |-> "none"]

\* The locals of a check_route53_health call that is not running.
IdleEvaluator == [pc |-> "idle", id |-> 1, now |-> 0, is_healthy |-> FALSE]

\* The threads that may run get_connection side by side, and the locals of a call, with
\* the record of what the call itself measured.
Callers == {"a", "b"}

IdleCaller ==
    [pc |-> "idle", idx |-> 0, healthy_endpoints |-> <<>>, target_endpoints |-> <<>>,
     own_health |-> [h \in Hosts |-> Absent], own_latency |-> [h \in Hosts |-> Absent]]


\* Nothing has run on the manager yet: an empty cache, no call made.
NothingRun ==
    /\ auth_token = NoToken
    /\ health_check_cache = [h \in Hosts |-> Absent]
    /\ now = 0
    /\ idx = 0
    /\ healthy_endpoints = <<>>
    /\ target_endpoints = <<>>
    /\ errors = <<>>
    /\ last_exception = Absent
    /\ result = NoResult
    /\ trace = <<>>
    /\ health_eval = [h \in Hosts |-> Absent]
    /\ probe_lat = [h \in Hosts |-> Absent]
    /\ probe_mode = [h \in Hosts |-> Absent]
    /\ evals = <<>>
    /\ fresh = Absent
    /\ log = <<>>
    /\ token_text = Absent
    /\ probe = Absent
    /\ callers = [c \in Callers |-> IdleCaller]
    /\ evaluators = [c \in Callers |-> IdleEvaluator]
    /\ best = Absent

\* A manager constructed over a list of the given endpoint dictionaries.
ConfiguredFrom(records) ==
    /\ mgr \in {"simple", "hybrid"}
    /\ endpoints \in [Hosts -> records]
    /\ \A h \in Hosts :
          /\ endpoints[h].hostname = h
          /\ endpoints[h].health_check_id \in {Absent, Some(EmptyId), Some(h)}
          \* the simple manager never reads health_check_id
          /\ mgr = "simple" => endpoints[h].health_check_id = Absent
    \* configurations enumerated: priorities vary over lists probed directly, health
    \* check ids vary over lists that declare no priority
    /\ \/ \A h \in Hosts : endpoints[h].health_check_id = Absent
       \/ \A h \in Hosts : endpoints[h].priority = Absent
    \* the simple manager always mints through the DSQL client; the hybrid manager
    \* without one is enumerated over lists probed directly that declare no priority
    /\ dsql_available \in BOOLEAN
    /\ ~dsql_available =>
          /\ mgr = "hybrid"
          /\ \A h \in Hosts : endpoints[h].health_check_id = Absent /\ endpoints[h].priority = Absent
    /\ pc = "idle"
    /\ ctor = Absent
    /\ NothingRun

Init ==
    /\ ConfiguredFrom(EndpointRecords)
    /\ connection_settings = DefaultSettings(mgr)
    /\ retries = latency_test_retries

\* ------------------------------------------------------------ actions
\* An external call of the attempt loop: the token is the one a mint returned or the
\* password a connection-open was given; params are the keyword arguments of an open.
Event(op, h, ok, token) ==
    [op |-> op, host |-> h, ok |-> ok, token |-> token, params |-> NoParams]

\* A caller invokes get_connection on the constructed manager.
GetConnection ==
    /\ pc = "idle"
    /\ pc' = IF mgr = "simple" THEN "check" ELSE "health"
    /\ idx' = 1
    /\ healthy_endpoints' = <<>>
    /\ target_endpoints' = <<>>
    /\ errors' = <<>>
    /\ last_exception' = Absent
    /\ auth_token' = NoToken
    /\ result' = NoResult
    /\ trace' = <<>>
    /\ health_eval' = [h \in Hosts |-> Absent]
    /\ probe_lat' = [h \in Hosts |-> Absent]
    /\ probe_mode' = [h \in Hosts |-> Absent]
    /\ UNCHANGED <<aux, mgr, endpoints, health_check_cache, now>>

\* endpoint[key] on a dictionary that lacks the key, outside every try block: the
\* KeyError leaves get_connection.
KeyErrorRaised ==
    /\ pc' = "raised"
    /\ result' = [kind |-> "error", msg |-> "KeyError", details |-> <<>>]
Has(h, key) == key \notin endpoints[h].missing

\* simple: one iteration of _check_endpoints, writing latency and is_healthy.  It reads
\* endpoint["hostname"]; the port has a default.
CheckEndpoint ==
    /\ pc = "check"
    /\ idx <= NumEndpoints
    /\ IF Has(idx, "hostname")
       THEN /\ \E sample \in Samples :
                  LET m == measure_endpoint(sample)
                  IN  /\ endpoints' = [endpoints EXCEPT ![idx].latency = Some(m[1]),
                                                        ![idx].is_healthy = Some(m[2])]
                      /\ health_eval' = [health_eval EXCEPT ![idx] = Some(m[2])]
                      /\ probe_lat' = [probe_lat EXCEPT ![idx] = Some(m[1])]
                      /\ probe_mode' = [probe_mode EXCEPT ![idx] = Some("single")]
            /\ idx' = idx + 1
            /\ UNCHANGED <<pc, result>>
       ELSE /\ KeyErrorRaised
            /\ UNCHANGED <<endpoints, health_eval, probe_lat, probe_mode, idx>>
    /\ UNCHANGED <<aux, mgr, health_check_cache, now, locals, trace>>

\* simple: filter the healthy endpoints and sort them, or fall back to the whole list.
SelectTargets ==
    /\ pc = "check"
    /\ idx > NumEndpoints
    /\ healthy_endpoints' = SimpleHealthyFilter(endpoints)
    /\ target_endpoints' = SimpleTargets(endpoints)
    /\ pc' = "mint"
    /\ idx' = 1
    /\ UNCHANGED <<aux, mgr, endpoints, health_check_cache, now, errors, last_exception, auth_token,
                   result, trace, health_eval, probe_lat, probe_mode>>

\* hybrid: one iteration of get_healthy_endpoints on an endpoint with a health check id.
HealthRoute53 ==
    /\ pc = "health"
    /\ idx <= NumEndpoints
    /\ UsesRoute53(endpoints[idx])
    /\ \E resp \in Responses :
          LET id == endpoints[idx].health_check_id[1]
              h == check_route53_health(health_check_cache, id, now, resp)
          IN  /\ health_check_cache' = cache_after(health_check_cache, id, now, resp)
              /\ health_eval' = [health_eval EXCEPT ![idx] = Some(h)]
              /\ healthy_endpoints' =
                    IF h THEN Append(healthy_endpoints, idx) ELSE healthy_endpoints
    /\ idx' = idx + 1
    /\ UNCHANGED <<aux, mgr, endpoints, now, pc, target_endpoints, errors, last_exception,
                   auth_token, result, trace, probe_lat, probe_mode>>

\* hybrid: one iteration of get_healthy_endpoints on an endpoint without a health
\* check id: check_direct_health, one TCP connect.  A missing port is caught by its
\* except clause (unhealthy); a missing hostname raises again inside that clause.
HealthDirect ==
    /\ pc = "health"
    /\ idx <= NumEndpoints
    /\ ~UsesRoute53(endpoints[idx])
    /\ IF Has(idx, "hostname")
       THEN /\ \E sample \in Samples :
                  LET h == Has(idx, "port") /\ Succeeded(sample)
                  IN  /\ health_eval' = [health_eval EXCEPT ![idx] = Some(h)]
                      /\ healthy_endpoints' =
                            IF h THEN Append(healthy_endpoints, idx) ELSE healthy_endpoints
            /\ idx' = idx + 1
            /\ UNCHANGED <<pc, result>>
       ELSE /\ KeyErrorRaised
            /\ UNCHANGED <<health_eval, healthy_endpoints, idx>>
    /\ UNCHANGED <<aux, mgr, endpoints, health_check_cache, now, target_endpoints, errors,
                   last_exception, auth_token, trace, probe_lat, probe_mode>>

\* hybrid: get_connection raises when get_healthy_endpoints returned nothing.
NoHealthyEndpoints ==
    /\ pc = "health"
    /\ idx > NumEndpoints
    /\ healthy_endpoints = <<>>
    /\ pc' = "raised"
    /\ result' = [kind |-> "error", msg |-> "no_healthy", details |-> <<>>]
    /\ UNCHANGED <<aux, mgr, endpoints, health_check_cache, now, idx, locals, trace,
                   health_eval, probe_lat, probe_mode>>

\* hybrid: the health loop is over and some endpoint is healthy.
StartMeasuring ==
    /\ pc = "health"
    /\ idx > NumEndpoints
    /\ healthy_endpoints # <<>>
    /\ pc' = "measure"
    /\ idx' = 1
    /\ UNCHANGED <<aux, mgr, endpoints, health_check_cache, now, locals, result, trace,
                   health_eval, probe_lat, probe_mode>>

\* A measuring loop that skips an endpoint whose dictionary already holds a latency.
MeasureLatency_KeepsMeasured ==
    /\ pc = "measure"
    /\ idx <= Len(healthy_endpoints)
    /\ LET h == healthy_endpoints[idx]
       IN  IF endpoints[h].latency # Absent
           THEN UNCHANGED <<endpoints, probe_lat, probe_mode>>
           ELSE \E samples \in [1..retries -> Samples] :
                   LET l == measure_latency(samples)
                   IN  /\ endpoints' = [endpoints EXCEPT ![h].latency = Some(l)]
                       /\ probe_lat' = [probe_lat EXCEPT ![h] = Some(l)]
                       /\ probe_mode' = [probe_mode EXCEPT ![h] = Some("mean")]
    /\ idx' = idx + 1
    /\ UNCHANGED <<aux, mgr, health_check_cache, now, locals, trace, health_eval, pc, result>>

\* hybrid: endpoint['latency'] = self.measure_latency(endpoint) for one healthy endpoint.
\* It reads endpoint['hostname'] and endpoint['port'] before its try block.
MeasureLatency ==
    /\ pc = "measure"
    /\ idx <= Len(healthy_endpoints)
    /\ LET h == healthy_endpoints[idx]
       IN  IF Has(h, "hostname") /\ Has(h, "port")
           THEN /\ \E samples \in [1..retries -> Samples] :
                      LET l == measure_latency(samples)
                      IN  /\ endpoints' = [endpoints EXCEPT ![h].latency = Some(l)]
                          /\ probe_lat' = [probe_lat EXCEPT ![h] = Some(l)]
                          /\ probe_mode' = [probe_mode EXCEPT ![h] = Some("mean")]
                /\ idx' = idx + 1
                /\ UNCHANGED <<pc, result>>
           ELSE /\ KeyErrorRaised
                /\ UNCHANGED <<endpoints, probe_lat, probe_mode, idx>>
    /\ UNCHANGED <<aux, mgr, health_check_cache, now, locals, trace, health_eval>>

\* A sort that puts the configured list itself into ranked order.
SortHealthy_InPlace ==
    /\ pc = "measure"
    /\ idx > Len(healthy_endpoints)
    /\ healthy_endpoints' = sorted(healthy_endpoints, HybridSortKey(endpoints))
    /\ target_endpoints' = healthy_endpoints'
    /\ endpoints' = [h \in Hosts |->
                        IF h <= Len(healthy_endpoints') THEN endpoints[healthy_endpoints'[h]]
                        ELSE endpoints[h]]
    /\ pc' = "mint"
    /\ idx' = 1
    /\ UNCHANGED <<aux, mgr, health_check_cache, now, errors, last_exception, auth_token,
                   result, trace, health_eval, probe_lat, probe_mode>>

\* hybrid: healthy_endpoints.sort(key=(latency, priority)).
SortHealthy ==
    /\ pc = "measure"
    /\ idx > Len(healthy_endpoints)
    /\ healthy_endpoints' = sorted(healthy_endpoints, HybridSortKey(endpoints))
    /\ target_endpoints' = healthy_endpoints'
    /\ pc' = "mint"
    /\ idx' = 1
    /\ UNCHANGED <<aux, mgr, endpoints, health_check_cache, now, errors, last_exception, auth_token,
                   result, trace, health_eval, probe_lat, probe_mode>>

\* An except clause that records the failure and gives the call up.
RecordFailure_Raise(h, reason) ==
    /\ errors' = IF mgr = "hybrid"
                 THEN Append(errors, [hostname |-> Some(h), reason |-> reason])
                 ELSE errors
    /\ last_exception' = IF mgr = "simple" THEN Some(reason) ELSE last_exception
    /\ idx' = idx
    /\ pc' = "raised"

\* An except clause that records the failure and tries the same endpoint again.
RecordFailure_Retry(h, reason) ==
    /\ errors' = IF mgr = "hybrid"
                 THEN Append(errors, [hostname |-> Some(h), reason |-> reason])
                 ELSE errors
    /\ last_exception' = IF mgr = "simple" THEN Some(reason) ELSE last_exception
    /\ idx' = idx
    /\ pc' = "mint"

\* The except clause of the attempt loop: record the failure and go on.
RecordFailure(h, reason) ==
    /\ errors' = IF mgr = "hybrid"
                 THEN Append(errors, [hostname |-> Some(h), reason |-> reason])
                 ELSE errors
    /\ last_exception' = IF mgr = "simple" THEN Some(reason) ELSE last_exception
    /\ idx' = idx + 1
    /\ pc' = "mint"

\* The token the n-th minting call of the call returns.
MintedToken(n) == n

\* The keys an attempt reads inside its try block before it mints (the hostname was
\* read by the measurement before).
AttemptFields == IF mgr = "simple" THEN {"region"} ELSE {"cluster_id", "region"}

\* auth_token = self.generate_auth_token(...) for the endpoint the loop is at: one call
\* of the minting service, or no call and the placeholder when the hybrid manager has no
\* DSQL client.  A KeyError on the endpoint's keys is caught like any failure.
MintToken ==
    /\ pc = "mint"
    /\ idx <= Len(target_endpoints)
    /\ LET h == target_endpoints[idx]
           n == Len(SelectSeq(trace, LAMBDA e : e.op = "mint")) + 1
       IN  IF AttemptFields \cap endpoints[h].missing # {}
           THEN /\ RecordFailure(h, KeyError)
                /\ UNCHANGED <<auth_token, trace>>
           ELSE IF dsql_available
           THEN \E ok \in BOOLEAN :
                  IF ok
                  THEN /\ trace' = Append(trace, Event("mint", h, TRUE, MintedToken(n)))
                       /\ auth_token' = MintedToken(n)
                       /\ pc' = "open"
                       /\ UNCHANGED <<idx, errors, last_exception>>
                  ELSE /\ trace' = Append(trace, Event("mint", h, FALSE, NoToken))
                       /\ RecordFailure(h, MintError)
                       /\ UNCHANGED auth_token
           ELSE /\ auth_token' = SimulatedToken(h)
                /\ pc' = "open"
                /\ UNCHANGED <<idx, errors, last_exception, trace>>
    /\ UNCHANGED <<aux, mgr, endpoints, health_check_cache, now, healthy_endpoints,
                   target_endpoints, result, health_eval, probe_lat, probe_mode>>

\* A successful connect that does not return but goes on with the next endpoint.
ReturnConnection_Continue(h) ==
    /\ pc' = "mint"
    /\ idx' = idx + 1
    /\ result' = result
    /\ UNCHANGED <<errors, last_exception>>

\* A successful psycopg2.connect: return conn.
ReturnConnection(h) ==
    /\ pc' = "returned"
    /\ result' = [kind |-> "connection", host |-> h]
    /\ UNCHANGED <<idx, errors, last_exception>>

\* psycopg2.connect(**conn_params) for the endpoint the loop is at.
OpenConnection ==
    /\ pc = "open"
    /\ LET h == target_endpoints[idx]
           conn_params ==
               IF mgr = "simple"
               THEN simple_conn_params(h, DefaultPort, auth_token, connection_settings)
               ELSE hybrid_conn_params(h, DefaultPort, auth_token, connection_settings)
       IN  \E ok \in BOOLEAN :
              /\ trace' = Append(trace,
                    [Event("open", h, ok, conn_params["password"][1])
                        EXCEPT !.params = conn_params])
              /\ IF ok
                 THEN ReturnConnection(h)
                 ELSE /\ RecordFailure(h, OpenError)
                      /\ UNCHANGED result
    /\ UNCHANGED <<aux, mgr, endpoints, health_check_cache, now, healthy_endpoints,
                   target_endpoints, auth_token, health_eval, probe_lat, probe_mode>>

\* The message of the exception raised after the loop.
FailureDetails ==
    IF mgr = "hybrid" THEN errors
    ELSE IF last_exception # Absent
         THEN <<[hostname |-> Absent, reason |-> last_exception[1]]>>
         ELSE <<>>

\* The loop ran out of endpoints: raise the failure.
RaiseAllFailed ==
    /\ pc = "mint"
    /\ idx > Len(target_endpoints)
    /\ pc' = "raised"
    /\ result' = [kind |-> "error", msg |-> "all_failed", details |-> FailureDetails]
    /\ UNCHANGED <<aux, mgr, endpoints, health_check_cache, now, idx, locals, trace,
                   health_eval, probe_lat, probe_mode>>

\* Time passes.  The clock is read only by check_route53_health, so time that passes
\* anywhere else is observed at the next such read and is let pass right before it.
Tick ==
    /\ now < MaxTime
    /\ pc = "health"
    /\ idx <= NumEndpoints
    /\ UsesRoute53(endpoints[idx])
    /\ now' = now + 1
    /\ UNCHANGED <<aux, mgr, endpoints, health_check_cache, pc, idx, locals, result, trace,
                   health_eval, probe_lat, probe_mode>>

Next ==
    \/ GetConnection
    \/ CheckEndpoint
    \/ SelectTargets
    \/ HealthRoute53
    \/ HealthDirect
    \/ NoHealthyEndpoints
    \/ StartMeasuring
    \/ MeasureLatency
    \/ SortHealthy
    \/ MintToken
    \/ OpenConnection
    \/ RaiseAllFailed
    \/ Tick

Spec == Init /\ [][Next]_vars

\* ------------------------------------------------------- claim helpers
\* The call has ranked its candidates (the attempt loop has started or is over).
Ranked == pc \in {"mint", "open", "returned"} \/ (pc = "raised" /\ target_endpoints # <<>>)
Ended == pc \in {"returned", "raised"}
SomeHealthy == \E h \in Hosts : health_eval[h] = Some(TRUE)
AllUnhealthy == \A h \in Hosts : health_eval[h] = Some(FALSE)
Latency(h) == Get(endpoints[h].latency, Inf)
Declares(h) == endpoints[h].priority # Absent
\* The hosts of the failed attempts, in the order they were made.
FailedHosts == [i \in 1..Len(SelectSeq(trace, LAMBDA e : ~e.ok)) |->
                   SelectSeq(trace, LAMBDA e : ~e.ok)[i].host]
FailedReasons == [i \in 1..Len(SelectSeq(trace, LAMBDA e : ~e.ok)) |->
                   IF SelectSeq(trace, LAMBDA e : ~e.ok)[i].op = "mint"
                   THEN MintError ELSE OpenError]

\* C1: once a connection-open succeeds the call returns that connection at once: the
\* successful open is the last external call of the call, no mint and no open follows
\* it, and the call's result is the connection to that endpoint.
C1_FirstSuccessReturned ==
    \A i \in 1..Len(trace) :
        (trace[i].op = "open" /\ trace[i].ok) =>
            /\ i = Len(trace)
            /\ pc = "returned"
            /\ result = [kind |-> "connection", host |-> trace[i].host]

\* C1 witness: a call returned a connection while endpoints ranked after it were left.
C1_Witness ==
    /\ pc = "returned"
    /\ idx < Len(target_endpoints)
    /\ trace[Len(trace)].op = "open" /\ trace[Len(trace)].ok

\* C2: a failed attempt never ends the call while an untried endpoint remains: during
\* the loop the failed attempts are exactly those on the endpoints ranked before the
\* current one, in ranked order, each recorded; and a call that ends in failure after
\* an attempt has a failed attempt on every ranked endpoint.
C2_FailureAdvances ==
    /\ pc \in {"mint", "open"} =>
          /\ FailedHosts = SubSeq(target_endpoints, 1, idx - 1)
          /\ mgr = "hybrid" => Len(errors) = idx - 1
          /\ mgr = "simple" => (last_exception # Absent <=> idx > 1)
    /\ (pc = "raised" /\ trace # <<>>) => FailedHosts = target_endpoints

\* C2 witness: an attempt failed and the next ranked endpoint was attempted after it.
C2_Witness ==
    \E i, j \in 1..Len(trace) :
        /\ i < j
        /\ ~trace[i].ok
        /\ trace[j].host # trace[i].host

\* C3: when every ranked endpoint's attempt fails, the raised error carries one entry per
\* attempted endpoint, in the order attempted, each with that endpoint's failure reason,
\* and an entry that names an endpoint names the one that produced it.
C3_AggregateError ==
    (pc = "raised" /\ trace # <<>>) =>
        /\ Len(result.details) = Len(FailedHosts)
        /\ \A k \in 1..Len(result.details) :
              /\ result.details[k].reason = FailedReasons[k]
              /\ result.details[k].hostname \in {Absent, Some(FailedHosts[k])}

\* C4: when no endpoint is evaluated healthy the call still attempts the configured
\* endpoints: it never ends without a connection attempt.
C4_DegradedFallback ==
    (Ended /\ AllUnhealthy) => trace # <<>>

\* C5: when every endpoint is unreachable (every probe and every attempt fails) the call
\* attempts each configured endpoint exactly once and its error has exactly one entry per
\* endpoint, in ranked order.
C5_AllUnreachable ==
    (pc = "raised" /\ AllUnhealthy) =>
        /\ FailedHosts = [h \in Hosts |-> h]
        /\ Len(result.details) = NumEndpoints

\* C6: an endpoint evaluated unhealthy in the call is attempted only if no endpoint was
\* evaluated healthy in the call.
C6_UnhealthyOnlyInFallback ==
    \A i \in 1..Len(trace) :
        health_eval[trace[i].host] = Some(FALSE) => ~SomeHealthy

\* C6 witness: some endpoint is healthy, another is not, every healthy endpoint was
\* attempted and failed, and the call ended.
C6_Witness ==
    /\ pc = "raised"
    /\ trace # <<>>
    /\ SomeHealthy
    /\ \E h \in Hosts : health_eval[h] = Some(FALSE)

\* C7: the healthy endpoints are attempted in ascending (latency, priority) order: lower
\* latency first, and among equal latencies the lower declared priority first.
C7_RankedByLatencyThenPriority ==
    (Ranked /\ SomeHealthy) =>
        \A i, j \in 1..Len(target_endpoints) :
            i < j =>
                LET a == target_endpoints[i]
                    b == target_endpoints[j]
                IN  /\ Latency(a) <= Latency(b)
                    /\ (Latency(a) = Latency(b) /\ Declares(a) /\ Declares(b)) =>
                          endpoints[a].priority[1] <= endpoints[b].priority[1]

\* C8: in the hybrid manager, among endpoints of equal latency one that declares no
\* priority is ranked after every endpoint that declares one.
C8_UndeclaredPriorityLast ==
    (mgr = "hybrid" /\ Ranked) =>
        \A i, j \in 1..Len(target_endpoints) :
            LET a == target_endpoints[i]
                b == target_endpoints[j]
            IN  (Latency(a) = Latency(b) /\ Declares(a) /\ ~Declares(b)) => i < j

\* C9: ranking is stable: two candidates equal on latency and on priority are attempted in
\* the order of the configured endpoint list.
C9_StableRanking ==
    Ranked =>
        \A i, j \in 1..Len(target_endpoints) :
            LET a == target_endpoints[i]
                b == target_endpoints[j]
            IN  (i < j /\ Latency(a) = Latency(b) /\ endpoints[a].priority = endpoints[b].priority)
                    => a < b

\* C9 witness: a sort ranked two healthy endpoints that are equal on latency and priority.
C9_Witness ==
    /\ Ranked
    /\ SomeHealthy
    /\ \E i, j \in 1..Len(target_endpoints) :
          /\ i < j
          /\ Latency(target_endpoints[i]) = Latency(target_endpoints[j])
          /\ endpoints[target_endpoints[i]].priority = endpoints[target_endpoints[j]].priority

\* An endpoint is reachable in the call when its TCP probe of the call succeeded.
Reachable(h) == probe_lat[h] # Absent /\ probe_lat[h][1] < Inf
\* a is preferred to b: lower measured latency, then lower priority (a declared priority
\* before none), then earlier in the configured list.
Preferred(a, b) ==
    \/ probe_lat[a][1] < probe_lat[b][1]
    \/ /\ probe_lat[a][1] = probe_lat[b][1]
       /\ \/ Declares(a) /\ ~Declares(b)
          \/ Declares(a) /\ Declares(b) /\ endpoints[a].priority[1] < endpoints[b].priority[1]
          \/ endpoints[a].priority = endpoints[b].priority /\ a < b

\* C10: when some endpoint is reachable and no attempt on a reachable endpoint fails, the
\* call returns a connection to the reachable endpoint of lowest measured latency, ties
\* broken by lower priority, then by the order of the configured list.
C10_BestReachableReturned ==
    (/\ Ended
     /\ \E h \in Hosts : Reachable(h)
     /\ \A i \in 1..Len(trace) : Reachable(trace[i].host) => trace[i].ok) =>
        /\ pc = "returned"
        /\ Reachable(result.host)
        /\ \A h \in Hosts \ {result.host} : Reachable(h) => Preferred(result.host, h)

\* ------------------------------------------------------------ failover
\* An endpoint is unavailable to the call when its health evaluation of the call reports
\* it unhealthy (the external health check, or the TCP probe of a hostname that does not
\* resolve), or when no TCP connect to it and no connection-open on it succeeds.
Unavailable(f) ==
    \/ health_eval[f] = Some(FALSE)
    \/ /\ probe_lat[f] = Some(Inf)
       /\ \A i \in 1..Len(trace) : (trace[i].host = f /\ trace[i].op = "open") => ~trace[i].ok
\* An endpoint is healthy and accepts connections: no mint and no open on it fails.
Accepting(h) ==
    /\ health_eval[h] = Some(TRUE)
    /\ \A i \in 1..Len(trace) : trace[i].host = h => trace[i].ok

\* C11: failover: a get_connection call on a freshly constructed manager, made while an
\* endpoint is unavailable and some other endpoint is healthy and accepts connections,
\* returns a connection, and that connection is to an endpoint other than the
\* unavailable one.
C11_Failover ==
    Ended =>
        \A f \in Hosts :
            (Unavailable(f) /\ \E h \in Hosts \ {f} : Accepting(h)) =>
                /\ pc = "returned"
                /\ result.host # f

\* C11 witness: the call evaluated an endpoint unhealthy and returned a connection to
\* another endpoint, which was healthy and accepted the connection.
C11_Witness ==
    /\ pc = "returned"
    /\ \E f \in Hosts :
          /\ health_eval[f] = Some(FALSE)
          /\ result.host # f
          /\ Accepting(result.host)

\* C18: a failed mint is final for its endpoint in the call: no other mint and no
\* connection-open is made on that endpoint, the next external call (if any) is the mint
\* for the next ranked endpoint, and the call does not end at the failure while a ranked
\* endpoint is left.
C18_MintFailureSkipsEndpoint ==
    \A i \in 1..Len(trace) :
        (trace[i].op = "mint" /\ ~trace[i].ok) =>
            /\ \A j \in 1..Len(trace) : j # i => trace[j].host # trace[i].host
            /\ \E k \in 1..Len(target_endpoints) :
                  /\ target_endpoints[k] = trace[i].host
                  /\ i < Len(trace) =>
                        /\ k < Len(target_endpoints)
                        /\ trace[i + 1].op = "mint"
                        /\ trace[i + 1].host = target_endpoints[k + 1]
                  /\ (i = Len(trace) /\ k < Len(target_endpoints)) =>
                        (pc = "mint" /\ idx = k + 1)

\* C18 witness: a mint failed and the call went on to mint for the next ranked endpoint.
C18_Witness ==
    \E i \in 1..Len(trace) :
        /\ i < Len(trace)
        /\ trace[i].op = "mint" /\ ~trace[i].ok
        /\ trace[i + 1].op = "mint"
        /\ trace[i + 1].host # trace[i].host

\* ---------------------------------------------------- health evaluations
\* A hybrid manager whose every endpoint carries a health check id; its caller invokes
\* check_route53_health directly, any id at any time, and lets time pass in between.
InitHealth ==
    /\ Init
    /\ mgr = "hybrid"
    /\ \A h \in Hosts : endpoints[h].health_check_id = Some(h)

\* One check_route53_health(id) call.  The record kept of it: the id, the clock it read,
\* the cache entry it found, how it was answered ("hit": from the cache, "error": the
\* query raised, "response": the query returned), whether it wrote the cache, and the
\* boolean it returned.
EvaluateHealth ==
    /\ pc = "idle"
    /\ Len(evals) < MaxEvals
    /\ \E h \in Hosts, resp \in Responses :
          LET id == endpoints[h].health_check_id[1]
              after == cache_after(health_check_cache, id, now, resp)
          IN  /\ health_check_cache' = after
              /\ evals' = Append(evals,
                    [id |-> id,
                     t |-> now,
                     entry |-> health_check_cache[id],
                     outcome |-> IF CacheHit(health_check_cache, id, now) THEN "hit"
                                 ELSE IF resp.ok THEN "response" ELSE "error",
                     stored |-> after # health_check_cache,
                     result |-> check_route53_health(health_check_cache, id, now, resp)])
    /\ UNCHANGED <<mgr, dsql_available, connection_settings, retries, observed, endpoints, now, pc, idx, locals, result, trace,
                   health_eval, probe_lat, probe_mode, fresh, ctor>>

\* Time passes between two evaluations.
Wait ==
    /\ pc = "idle"
    /\ now < MaxTime
    /\ now' = now + 1
    /\ UNCHANGED <<aux, mgr, endpoints, health_check_cache, pc, idx, locals, result, trace,
                   health_eval, probe_lat, probe_mode>>

NextHealth ==
    \/ EvaluateHealth
    \/ Wait

SpecHealth == InitHealth /\ [][NextHealth]_vars

\* The evaluation found an entry for its id whose age had reached the TTL.
Expired(e) == e.entry # Absent /\ e.t - e.entry[1][2] >= health_check_ttl
\* Evaluation j is the first evaluation of its id after evaluation i.
NextForId(i, j) ==
    /\ i < j
    /\ evals[i].id = evals[j].id
    /\ \A k \in (i + 1)..(j - 1) : evals[k].id # evals[i].id

C13_ExpiredEntryRefreshed ==
    \A i \in 1..Len(evals) :
        Expired(evals[i]) =>
            /\ evals[i].outcome # "hit"
            /\ evals[i].outcome = "error" => ~evals[i].result

\* C13 witness: an entry holding healthy expired, the fresh query failed, and the
\* evaluation returned unhealthy.
C13_Witness ==
    \E i \in 1..Len(evals) :
        /\ Expired(evals[i])
        /\ evals[i].entry[1][1]
        /\ evals[i].outcome = "error"
        /\ ~evals[i].result

\* C14: an evaluation whose query raised returns unhealthy and leaves the cache as it
\* was: the entry of its id is still the one it found, and the next evaluation of that
\* id finds the same entry and queries again.
C14_ErrorNotCached ==
    \A i \in 1..Len(evals) :
        evals[i].outcome = "error" =>
            /\ ~evals[i].result
            /\ ~evals[i].stored
            /\ i = Len(evals) => health_check_cache[evals[i].id] = evals[i].entry
            /\ \A j \in 1..Len(evals) :
                  NextForId(i, j) =>
                      /\ evals[j].entry = evals[i].entry
                      /\ evals[j].outcome # "hit"

\* C14 witness: a query raised and the next evaluation of the same id, made at the same
\* clock reading, queried again.
C14_Witness ==
    \E i, j \in 1..Len(evals) :
        /\ NextForId(i, j)
        /\ evals[i].outcome = "error"
        /\ evals[j].t = evals[i].t
        /\ evals[j].outcome = "response"

\* C15: every query that returns without error stores its result: the evaluation writes
\* the cache, and right after it the entry of its id is (result, clock it read).
C15_EveryResponseCached ==
    \A i \in 1..Len(evals) :
        evals[i].outcome = "response" =>
            /\ evals[i].stored
            /\ i = Len(evals) =>
                  health_check_cache[evals[i].id] = Some(<<evals[i].result, evals[i].t>>)

\* ------------------------------------------------- one fresh evaluation
\* check_route53_health(id) on the empty cache of a new manager: the query is made and
\* its answer, drawn from the sample responses, is classified.
ClassifyResponse ==
    /\ pc = "idle"
    /\ fresh = Absent
    /\ \E h \in Hosts, resp \in SampleResponses :
          LET id == endpoints[h].health_check_id[1]
          IN  /\ health_check_cache' = cache_after(health_check_cache, id, now, resp)
              /\ fresh' = Some([id |-> id,
                                response |-> resp,
                                result |-> check_route53_health(health_check_cache, id, now, resp)])
    /\ UNCHANGED <<mgr, dsql_available, connection_settings, retries, observed, endpoints, now, pc, idx, locals, result, trace,
                   health_eval, probe_lat, probe_mode, evals, ctor>>

NextFresh == ClassifyResponse

SpecFresh == InitHealth /\ [][NextFresh]_vars

\* The text begins with the letters s-u-c-c-e-s-s, each in either case.
CaseInsensitiveSuccess(text) ==
    /\ Len(text) >= Len(success)
    /\ \A k \in 1..Len(success) : text[k] \in {StatusLowerSuccess[k], StatusSUCCESS[k]}

\* C16: the result of a fresh query is healthy exactly when the query returned and at
\* least one of its observations has a status that begins, in any letter case, with
\* "success"; so one success among failures is healthy and no observation is unhealthy.
C16_HealthyIffSomeSuccess ==
    fresh # Absent =>
        (fresh[1].result <=>
            /\ fresh[1].response.ok
            /\ \E k \in 1..Len(fresh[1].response.observations) :
                  CaseInsensitiveSuccess(fresh[1].response.observations[k]))

\* C16 witness: a response with a failure and an upper-case success was found healthy.
C16_Witness ==
    /\ fresh # Absent
    /\ fresh[1].result
    /\ \E j, k \in 1..Len(fresh[1].response.observations) :
          /\ fresh[1].response.observations[j] = StatusFailure
          /\ fresh[1].response.observations[k] = StatusSUCCESS

\* C17: every connection-open is given a token minted in its own attempt, and no token
\* serves twice: the external call right before an open is the successful mint for the
\* same endpoint, the open's password is the token that mint returned, no other open
\* uses that token, and no endpoint is minted for twice in a call.
C17_FreshTokenPerAttempt ==
    /\ \A i \in 1..Len(trace) :
          trace[i].op = "open" =>
              /\ i > 1
              /\ trace[i - 1] = Event("mint", trace[i].host, TRUE, trace[i].token)
              /\ \A j \in 1..Len(trace) :
                    (j # i /\ trace[j].op = "open") => trace[j].token # trace[i].token
    /\ \A i, j \in 1..Len(trace) :
          (i < j /\ trace[i].op = "mint" /\ trace[j].op = "mint") =>
              /\ trace[i].host # trace[j].host
              /\ (trace[i].ok /\ trace[j].ok) => trace[i].token # trace[j].token

\* --------------------------------------------------------- construction
\* A configured list of n endpoints.
EndpointList(n) ==
    [h \in 1..n |-> [hostname |-> h, priority |-> Absent, health_check_id |-> Absent,
                     latency |-> Absent, is_healthy |-> Absent, missing |-> {}]]
EndpointLists == {EndpointList(n) : n \in 0..NumEndpoints}

\* A configuration file as the constructor finds it: no path given ("none"), no file at
\* the path ("missing"), a file that is not JSON ("malformed"), a JSON object without an
\* 'endpoints' key ("no_key"), or one whose 'endpoints' is the given list.
ConfigFile(kind, eps) == [kind |-> kind, endpoints |-> eps]
ConfigFiles ==
    {ConfigFile(k, <<>>) : k \in {"none", "missing", "malformed", "no_key"}}
        \cup {ConfigFile("endpoints", eps) : eps \in EndpointLists}

\* The constructor's inputs: the endpoints argument (None or a list), the config_file
\* argument, and dsql_config.json next to the module.
CtorInputs ==
    [endpoints : {Absent} \cup {Some(eps) : eps \in EndpointLists},
     config_file : ConfigFiles,
     default_config : {f \in ConfigFiles : f.kind # "none"}]

Constructed(eps) == [error |-> "none", endpoints |-> eps]
ConstructError(e) == [error |-> e, endpoints |-> <<>>]

\* DSQLHybridConnectionManager._load_config
load_config(file) ==
    IF file.kind = "missing" THEN ConstructError("FileNotFoundError")
    ELSE IF file.kind = "malformed" THEN ConstructError("JSONDecodeError")
    ELSE IF file.endpoints = <<>> THEN ConstructError("ValueError")
    ELSE Constructed(file.endpoints)

\* DSQLHybridConnectionManager.__init__: the configuration file, else the endpoints
\* argument, else ValueError.
hybrid_init(c) ==
    IF c.config_file.kind # "none" THEN load_config(c.config_file)
    ELSE IF Get(c.endpoints, <<>>) # <<>> THEN Constructed(c.endpoints[1])
    ELSE ConstructError("ValueError")

\* A constructor that takes the endpoints argument as it is.
simple_init_Unchecked(c) == Constructed(Get(c.endpoints, <<>>))

\* DSQLConnectionManager.__init__: the endpoints argument, overridden by the 'endpoints'
\* of an existing configuration file, then dsql_config.json when still empty (an error
\* in loading it is logged and ignored), then ValueError when still empty.
simple_init(c) ==
    LET given == Get(c.endpoints, <<>>)
        loaded == IF c.config_file.kind = "endpoints" THEN c.config_file.endpoints ELSE given
        final == IF loaded = <<>> /\ c.default_config.kind = "endpoints"
                 THEN c.default_config.endpoints
                 ELSE loaded
    IN  IF c.config_file.kind = "malformed" THEN ConstructError("JSONDecodeError")
        ELSE IF final = <<>> THEN ConstructError("ValueError")
        ELSE Constructed(final)

\* Before the constructor runs.
InitNew ==
    /\ mgr \in {"simple", "hybrid"}
    /\ dsql_available = TRUE
    /\ connection_settings = NoParams
    /\ retries = latency_test_retries
    /\ endpoints = <<>>
    /\ pc = "new"
    /\ ctor \in CtorInputs
    /\ NothingRun

\* The constructor call: a manager ready for get_connection, or an exception.
Construct ==
    /\ pc = "new"
    /\ LET r == IF mgr = "simple" THEN simple_init(ctor) ELSE hybrid_init(ctor)
       IN  IF r.error = "none"
           THEN /\ endpoints' = r.endpoints
                /\ pc' = "idle"
                /\ UNCHANGED result
           ELSE /\ pc' = "ctor_error"
                /\ result' = [kind |-> "error", msg |-> r.error, details |-> <<>>]
                /\ UNCHANGED endpoints
    /\ UNCHANGED <<aux, mgr, health_check_cache, now, idx, locals, trace, health_eval,
                   probe_lat, probe_mode>>

NextNew ==
    \/ Construct
    \/ GetConnection

SpecNew == InitNew /\ [][NextNew]_vars

\* A source of endpoints that holds none.
NoEndpointsIn(file) == file.kind # "endpoints" \/ file.endpoints = <<>>
\* No endpoints argument and no endpoints in the configuration the manager reads.
NoEndpointsConfigured ==
    /\ Get(ctor.endpoints, <<>>) = <<>>
    /\ NoEndpointsIn(ctor.config_file)
    /\ mgr = "simple" => NoEndpointsIn(ctor.default_config)

\* C19: a constructor call given no endpoints ends in an error with no probe, health
\* query, mint or connection-open made, and every constructed manager, so every manager
\* a get_connection call runs on, has at least one endpoint.
C19_EmptyEndpointSetRejected ==
    /\ (pc # "new" /\ NoEndpointsConfigured) =>
          /\ pc = "ctor_error"
          /\ result.kind = "error"
          /\ trace = <<>>
          /\ \A h \in Hosts :
                /\ health_eval[h] = Absent
                /\ probe_lat[h] = Absent
                /\ health_check_cache[h] = Absent
    /\ pc \notin {"new", "ctor_error"} => endpoints # <<>>

\* C19 witness: a constructor call given an empty endpoints list and no configuration
\* with endpoints failed with the configuration error.
C19_Witness ==
    /\ pc = "ctor_error"
    /\ result.msg = "ValueError"
    /\ ctor.endpoints = Some(<<>>)
    /\ NoEndpointsConfigured

\* ----------------------------------------------- incomplete endpoint records
\* A manager constructed over a list in which some endpoint dictionary lacks a required
\* key (the constructors do not look into the dictionaries).
InitFields ==
    /\ ConfiguredFrom(IncompleteRecords)
    /\ connection_settings = DefaultSettings(mgr)
    /\ retries = latency_test_retries
    /\ dsql_available
    /\ \E h \in Hosts : endpoints[h].missing # {}
    /\ \A h \in Hosts : endpoints[h].priority = Absent

SpecFields == InitFields /\ [][Next]_vars

\* C20: a manager over a list with an endpoint that lacks a required key makes no probe,
\* health evaluation, mint or connection-open, records no per-endpoint failure, and its
\* get_connection call ends in the configuration error.
C20_MissingFieldFatal ==
    (\E h \in Hosts : endpoints[h].missing # {}) =>
        /\ trace = <<>>
        /\ \A h \in Hosts : health_eval[h] = Absent /\ probe_lat[h] = Absent
        /\ errors = <<>>
        /\ last_exception = Absent
        /\ Ended => (pc = "raised" /\ result.msg = "KeyError")

\* ------------------------------------------- configured connection settings
\* A manager constructed from a configuration file whose connection_settings are any of
\* the samples; endpoints declare no priority.
InitParams ==
    /\ ConfiguredFrom(EndpointRecords)
    /\ dsql_available
    /\ \A h \in Hosts : endpoints[h].priority = Absent
    /\ connection_settings \in SettingsSamples
    /\ retries = latency_test_retries

SpecParams == InitParams /\ [][Next]_vars

\* C21: every connection-open is made with TLS required: its keyword arguments carry
\* sslmode = 'require'.
C21_TLSRequired ==
    \A i \in 1..Len(trace) :
        trace[i].op = "open" => trace[i].params["sslmode"] = Some("require")

\* C22: every connection-open on an endpoint is given that endpoint's hostname and port,
\* the database and user of the request, and as password the token the mint right before
\* it returned for that endpoint.
C22_OwnParameters ==
    \A i \in 1..Len(trace) :
        trace[i].op = "open" =>
            /\ trace[i].params["host"] = Some(trace[i].host)
            /\ trace[i].params["port"] = Some(DefaultPort)
            /\ trace[i].params["database"] = Some(RequestDatabase)
            /\ trace[i].params["user"] = Some(RequestUser)
            /\ i > 1
            /\ trace[i - 1].op = "mint" /\ trace[i - 1].ok
            /\ trace[i - 1].host = trace[i].host
            /\ trace[i].params["password"] = Some(trace[i - 1].token)

\* ------------------------------------------- a manager used before
\* What an earlier get_connection call on the same manager left in an endpoint
\* dictionary: the simple manager's _check_endpoints wrote latency and is_healthy of
\* every endpoint; the hybrid manager wrote latency of the endpoints healthy in that call.
EarlierSamples == {Failed, MaxLatency}
EarlierRecords ==
    [hostname : Hosts,
     priority : {Absent},
     health_check_id : {Absent} \cup {Some(h) : h \in Hosts},
     latency : {Absent} \cup {Some(measure_endpoint(x)[1]) : x \in EarlierSamples}
                 \cup {Some(measure_latency([i \in 1..latency_test_retries |-> MaxLatency]))},
     is_healthy : {Absent} \cup {Some(measure_endpoint(x)[2]) : x \in EarlierSamples},
     missing : {{}}]

LeftBySimple(e) ==
    \E x \in EarlierSamples :
        e.latency = Some(measure_endpoint(x)[1]) /\ e.is_healthy = Some(measure_endpoint(x)[2])
LeftByHybrid(e) ==
    /\ e.is_healthy = Absent
    /\ e.latency \in {Absent, Some(measure_latency([i \in 1..latency_test_retries |-> MaxLatency]))}
Untouched(e) == e.latency = Absent /\ e.is_healthy = Absent

\* A manager on which no call or one earlier call has run; all endpoints have a health
\* check id or none has.
InitEarlier ==
    /\ ConfiguredFrom(EarlierRecords)
    /\ connection_settings = DefaultSettings(mgr)
    /\ retries = latency_test_retries
    /\ dsql_available
    /\ \/ \A h \in Hosts : endpoints[h].health_check_id = Absent
       \/ \A h \in Hosts : endpoints[h].health_check_id # Absent
    /\ IF mgr = "simple"
       THEN \/ \A h \in Hosts : Untouched(endpoints[h])
            \/ \A h \in Hosts : LeftBySimple(endpoints[h])
       ELSE \A h \in Hosts : LeftByHybrid(endpoints[h])

SpecEarlier == InitEarlier /\ [][Next]_vars

\* The evaluation phase of the call is over: the targets are ranked, or the call has
\* ended.
Evaluated == pc \in {"mint", "open", "returned", "raised"}

\* C23: once the evaluation phase of a call is over, every endpoint dictionary holds the
\* health and the latency this call measured for it, in is_healthy and in latency.
C23_FieldsRewritten ==
    Evaluated =>
        \A h \in Hosts :
            /\ health_eval[h] # Absent /\ endpoints[h].is_healthy = health_eval[h]
            /\ probe_lat[h] # Absent /\ endpoints[h].latency = probe_lat[h]

\* ------------------------------------------- logging of minted tokens
MaxTokenLen == 22        \* longest token the DSQL client returns
PreviewLen == 10         \* token[:10], token[-10:]
PreviewThreshold == 20   \* len(token) > 20

Min(a, b) == IF a < b THEN a ELSE b
Max(a, b) == IF a > b THEN a ELSE b
\* Python slices s[:n] and s[-n:].
SliceTo(s, n) == SubSeq(s, 1, Min(n, Len(s)))
SliceLast(s, n) == SubSeq(s, Max(1, Len(s) - n + 1), Len(s))

Ellipsis == <<".", ".", ".">>
TokenTooShort == <<"t", "o", "k", "e", "n", " ", "t", "o", "o", " ", "s", "h", "o", "r", "t">>

\* token[:10] + "..." + token[-10:] if len(token) > 20 else "token too short"
token_preview_Whole(token) ==
    IF Len(token) > PreviewThreshold THEN token ELSE TokenTooShort
token_preview(token) ==
    IF Len(token) > PreviewThreshold
    THEN SliceTo(token, PreviewLen) \o Ellipsis \o SliceLast(token, PreviewLen)
    ELSE TokenTooShort

\* Tokens the DSQL client may return: every length up to MaxTokenLen, of one repeated
\* character with at most one position marked by another character.
Marked(n, m) == [i \in 1..n |-> IF i = m THEN "b" ELSE "a"]
TokenSamples == {Marked(n, m) : n \in 0..MaxTokenLen, m \in 0..MaxTokenLen}

\* The text of the cluster id and region of an endpoint, and the simulated token
\* f"test-auth-token-{cluster_id}-{region}".
ClusterIdText(h) == IF h = 1 THEN <<"c", "1">> ELSE <<"c", "x">>
RegionText(h) == IF h = 1 THEN <<"r", "1">> ELSE <<"r", "x">>
SimulatedTokenText(cluster_id, region) ==
    <<"t", "e", "s", "t", "-", "a", "u", "t", "h", "-", "t", "o", "k", "e", "n", "-">>
        \o cluster_id \o <<"-">> \o region

\* A log record: the fixed text of its f-string and the text it interpolates from the
\* token (none for the records that interpolate the hostname, region, cluster id,
\* caller identity or exception only).
LogRecord(msg, shown) == [msg |-> msg, shown |-> shown]

\* _generate_auth_token / generate_auth_token on one endpoint, with the records it logs.
GenerateAuthToken ==
    /\ pc = "idle"
    /\ \E h \in Hosts :
          IF mgr = "simple" \/ dsql_available
          THEN \E ok \in BOOLEAN, token \in TokenSamples :
                  LET before ==
                          IF mgr = "simple"
                          THEN <<LogRecord("Creating DSQL client for region", <<>>),
                                 LogRecord("Current AWS identity", <<>>),
                                 LogRecord("Generating DSQL admin auth token for", <<>>)>>
                          ELSE <<LogRecord("Generating DSQL admin auth token for", <<>>)>>
                  IN  IF ok
                      THEN /\ token_text' = Some(token)
                           /\ log' = before \o
                                 <<LogRecord("Generated token preview", token_preview(token))>>
                           /\ pc' = "minted"
                      ELSE /\ token_text' = Absent
                           /\ log' = before \o <<LogRecord("Error generating auth token", <<>>)>>
                           /\ pc' = "mint_raised"
          ELSE /\ token_text' = Some(SimulatedTokenText(ClusterIdText(h), RegionText(h)))
               /\ log' = <<LogRecord("Generating simulated auth token for cluster", <<>>)>>
               /\ pc' = "minted"
    /\ UNCHANGED <<mgr, dsql_available, connection_settings, retries, endpoints,
                   health_check_cache, now, idx, locals, result, trace, health_eval,
                   probe_lat, probe_mode, evals, fresh, ctor, probe, callers, evaluators, best>>

InitMint ==
    /\ ConfiguredFrom(EndpointRecords)
    /\ connection_settings = DefaultSettings(mgr)
    /\ retries = latency_test_retries
    /\ \A h \in Hosts : endpoints[h].priority = Absent /\ endpoints[h].health_check_id = Absent

NextMint == GenerateAuthToken

SpecMint == InitMint /\ [][NextMint]_vars

\* C24: no record logged while minting shows the whole token: of a token of more than
\* 20 characters a record shows at most the first 10 characters, "..." and the last 10
\* characters; of a token of 20 characters or fewer it shows nothing (the fixed text
\* "token too short" stands in for it).
C24_TokenNotLogged ==
    token_text # Absent =>
        LET token == token_text[1]
            n == Len(token)
        IN  \A i \in 1..Len(log) :
               \/ log[i].shown = <<>>
               \/ /\ n > 20
                  /\ log[i].shown =
                        [k \in 1..23 |-> IF k <= 10 THEN token[k]
                                         ELSE IF k <= 13 THEN "."
                                         ELSE token[n - 23 + k]]
               \/ /\ n <= 20
                  /\ log[i].shown = TokenTooShort

\* A token of 22 characters whose 11th character differs from the others was minted and
\* its preview logged.
C24_Witness ==
    /\ pc = "minted"
    /\ token_text = Some(Marked(22, 11))
    /\ \E i \in 1..Len(log) : log[i].shown # <<>>

\* ------------------------------------------- health strategy
\* Endpoint dictionaries without a health_check_id key, with an empty one, or with an id.
StrategyRecords ==
    [hostname : Hosts,
     priority : {Absent},
     health_check_id : {Absent, Some(EmptyId)} \cup {Some(h) : h \in Hosts},
     latency : {Absent},
     is_healthy : {Absent},
     missing : {{}}]

InitStrategy ==
    /\ ConfiguredFrom(StrategyRecords)
    /\ connection_settings = DefaultSettings(mgr)
    /\ retries = latency_test_retries
    /\ mgr = "hybrid"
    /\ dsql_available

\* The cache is_endpoint_healthy leaves: check_direct_health does not touch it.
is_endpoint_healthy_cache_DirectCached(e, cache, t, resp, connected) ==
    IF e.health_check_id # Absent /\ e.health_check_id[1] # EmptyId
    THEN cache_after(cache, e.health_check_id[1], t, resp)
    ELSE [cache EXCEPT ![e.hostname] = Some(<<connected, t>>)]
is_endpoint_healthy_cache(e, cache, t, resp, connected) ==
    IF UsesRoute53(e) THEN cache_after(cache, e.health_check_id[1], t, resp) ELSE cache

\* One is_endpoint_healthy(endpoint) call.  The record kept of it: the endpoint, how many
\* TCP connects, Route 53 queries and cache lookups it made, how it was answered ("hit":
\* from the cache, "response": by a query with observations, "empty": by a query without
\* observations, "error": the query raised, "connect": by the TCP connect), whether the
\* connect succeeded, and the boolean it returned.
IsEndpointHealthy ==
    /\ pc = "idle"
    /\ \E h \in Hosts, resp \in Responses, sample \in Samples :
          LET e == endpoints[h]
              connected == Succeeded(sample)
          IN  /\ health_check_cache' =
                     is_endpoint_healthy_cache(e, health_check_cache, now, resp, connected)
              /\ probe' = Some(
                   IF UsesRoute53(e)
                   THEN LET id == e.health_check_id[1]
                            hit == CacheHit(health_check_cache, id, now)
                        IN  [host |-> h,
                             connects |-> 0,
                             queries |-> IF hit THEN 0 ELSE 1,
                             lookups |-> 1,
                             outcome |-> IF hit THEN "hit"
                                         ELSE IF ~resp.ok THEN "error"
                                         ELSE IF resp.observations = <<>> THEN "empty"
                                         ELSE "response",
                             connected |-> FALSE,
                             result |-> check_route53_health(health_check_cache, id, now, resp)]
                   ELSE [host |-> h,
                         connects |-> 1,
                         queries |-> 0,
                         lookups |-> 0,
                         outcome |-> "connect",
                         connected |-> connected,
                         result |-> connected])
    /\ UNCHANGED <<mgr, dsql_available, connection_settings, retries, log, token_text,
                   callers, evaluators, best, endpoints, now, pc, idx, locals, result, trace, health_eval, probe_lat, probe_mode,
                   evals, fresh, ctor>>

NextStrategy ==
    \/ IsEndpointHealthy
    \/ Wait

SpecStrategy == InitStrategy /\ [][NextStrategy]_vars

\* The endpoint has a health check id that is not empty.
HasHealthCheckId(h) == endpoints[h].health_check_id \notin {Absent, Some(EmptyId)}

\* C25: an evaluation of an endpoint with a non-empty health check id makes no TCP
\* connect and returns what the cache entry of the id holds or, when the query raised or
\* had no observation, False; an evaluation of an endpoint with no or an empty id makes
\* exactly one TCP connect, no query and no cache lookup, and returns whether the
\* connect succeeded.
C25_StrategyPerEndpoint ==
    probe # Absent =>
        LET p == probe[1]
        IN  IF HasHealthCheckId(p.host)
            THEN /\ p.connects = 0
                 /\ p.lookups = 1
                 /\ p.outcome \in {"hit", "response", "empty", "error"}
                 /\ p.outcome = "hit" => p.queries = 0
                 /\ p.outcome \in {"hit", "response"} =>
                       /\ health_check_cache[endpoints[p.host].health_check_id[1]] # Absent
                       /\ p.result = health_check_cache[endpoints[p.host].health_check_id[1]][1][1]
                 /\ p.outcome \in {"empty", "error"} => p.queries = 1 /\ ~p.result
            ELSE /\ p.connects = 1
                 /\ p.queries = 0
                 /\ p.lookups = 0
                 /\ p.result = p.connected

\* An endpoint with an empty health check id was evaluated by a connect that succeeded,
\* while the other endpoint's id has a cache entry.
C25_Witness ==
    /\ probe # Absent
    /\ endpoints[probe[1].host].health_check_id = Some(EmptyId)
    /\ probe[1].outcome = "connect" /\ probe[1].result
    /\ \E id \in Hosts : health_check_cache[id] # Absent

\* C26: a health evaluation leaves the endpoint list, every field of every endpoint
\* dictionary and the connection settings as they were, and an evaluation by the direct
\* strategy leaves the health-check cache as it was too.
C26_HealthFrame ==
    [][probe' # probe =>
          /\ endpoints' = endpoints
          /\ connection_settings' = connection_settings
          /\ probe'[1].outcome = "connect" => health_check_cache' = health_check_cache]_vars

\* A direct evaluation ran on a manager whose cache holds an entry, and left it there.
C26_Witness ==
    /\ probe # Absent
    /\ probe[1].outcome = "connect"
    /\ endpoints[probe[1].host].health_check_id = Absent
    /\ \E id \in Hosts : health_check_cache[id] # Absent

\* ------------------------------------------- probes called on their own
\* The connects measure_latency makes when the network would answer its attempts with
\* the outcomes of the stream: range(self.latency_test_retries) iterations, none skipped.
Attempted_UntilSuccess(stream, n) ==
    LET first == {i \in 1..n : Succeeded(stream[i])}
    IN  IF first = {} THEN SubSeq(stream, 1, n)
        ELSE SubSeq(stream, 1, CHOOSE i \in first : \A j \in first : i <= j)
Attempted(stream, n) == SubSeq(stream, 1, n)

\* A manager constructed with any retry count up to the default; no call made.
InitProbe ==
    /\ ConfiguredFrom(EndpointRecords)
    /\ connection_settings = DefaultSettings(mgr)
    /\ retries \in 0..latency_test_retries
    /\ mgr = "simple" => retries = latency_test_retries
    /\ dsql_available
    /\ \A h \in Hosts : endpoints[h].priority = Absent /\ endpoints[h].health_check_id = Absent

\* The record kept of one probe: the function, the outcomes the network had for its
\* connects, the connects it made, the latency and the health it returned (Absent when
\* the function returns none), and whether it raised.
ProbeRecord(fn, stream, attempted, latency, healthy) ==
    [fn |-> fn, stream |-> stream, attempted |-> attempted, latency |-> latency,
     healthy |-> healthy, raised |-> FALSE]

ProbeFrame ==
    UNCHANGED <<mgr, dsql_available, connection_settings, retries, log, token_text,
                callers, evaluators, best, endpoints, health_check_cache, now, pc, idx, locals, result, trace,
                health_eval, probe_lat, probe_mode, evals, fresh, ctor>>

\* hybrid: measure_latency(endpoint).
MeasureLatencyAlone ==
    /\ pc = "idle"
    /\ mgr = "hybrid"
    /\ \E stream \in [1..latency_test_retries -> Outcomes] :
          LET attempted == Attempted(stream, retries)
          IN  probe' = Some(ProbeRecord("measure_latency", stream, attempted,
                                        Some(measure_latency(attempted)), Absent))
    /\ ProbeFrame

\* hybrid: check_direct_health(endpoint).
CheckDirectHealthAlone ==
    /\ pc = "idle"
    /\ mgr = "hybrid"
    /\ \E outcome \in Outcomes :
          probe' = Some(ProbeRecord("check_direct_health", <<outcome>>, <<outcome>>,
                                    Absent, Some(Succeeded(outcome))))
    /\ ProbeFrame

\* simple: _measure_endpoint(hostname, port).
MeasureEndpointAlone ==
    /\ pc = "idle"
    /\ mgr = "simple"
    /\ \E outcome \in Outcomes :
          LET m == measure_endpoint(outcome)
          IN  probe' = Some(ProbeRecord("_measure_endpoint", <<outcome>>, <<outcome>>,
                                        Some(m[1]), Some(m[2])))
    /\ ProbeFrame

NextProbe ==
    \/ MeasureLatencyAlone
    \/ CheckDirectHealthAlone
    \/ MeasureEndpointAlone

SpecProbe == InitProbe /\ [][NextProbe]_vars

\* The positions among the first n outcomes of a stream at which the connect succeeds.
Successes(stream, n) == {i \in 1..n : stream[i] > 0}
RECURSIVE SumOver(_, _)
SumOver(stream, S) ==
    IF S = {} THEN 0
    ELSE LET i == CHOOSE x \in S : TRUE IN stream[i] + SumOver(stream, S \ {i})

\* C27: measure_latency makes exactly latency_test_retries connects; it returns the
\* infinite latency iff none of them succeeded (so always when the retry count is 0), and
\* otherwise the mean of the latencies of the connects that succeeded.
C27_MeanOfSuccesses ==
    (probe # Absent /\ probe[1].fn = "measure_latency") =>
        LET p == probe[1]
            ok == Successes(p.stream, retries)
        IN  /\ Len(p.attempted) = retries
            /\ p.latency[1] = Inf <=> ok = {}
            /\ ok # {} => p.latency[1] * Cardinality(ok) = SumOver(p.stream, ok) * Scale

\* A measurement whose first connect failed, whose second succeeded and whose third
\* succeeded with another latency.
C27_Witness ==
    /\ probe # Absent /\ probe[1].fn = "measure_latency"
    /\ retries = 3
    /\ probe[1].stream[1] = Failed
    /\ probe[1].stream[2] = 1
    /\ probe[1].stream[3] = 2
    /\ probe[1].latency[1] < Inf

\* C28: a probe whose connects only fail in the expected ways does not raise and returns
\* the infinite latency or unhealthy; a probe that meets an unexpected internal error
\* raises it to its caller.
C28_UnexpectedErrorDistinct ==
    probe # Absent =>
        LET p == probe[1]
        IN  /\ (\A i \in 1..Len(p.attempted) : p.attempted[i] = Failed) =>
                  /\ ~p.raised
                  /\ p.latency # Absent => p.latency[1] = Inf
                  /\ p.healthy # Absent => ~p.healthy[1]
            /\ (\E i \in 1..Len(p.attempted) : p.attempted[i] = Unexpected) => p.raised

\* The latency of every ranked endpoint was measured in this call and is the one the
\* endpoint dictionary holds.
RankedOnFresh ==
    \A i \in 1..Len(target_endpoints) :
        LET h == target_endpoints[i]
        IN  probe_lat[h] # Absent /\ endpoints[h].latency = probe_lat[h]

\* C29: once a call has ranked its targets, the latency of every target is one this call
\* measured, and all of them were measured the same way (all single probes or all means
\* over the retries).
C29_SameCallSameMode ==
    Ranked =>
        /\ RankedOnFresh
        /\ \A i \in 1..Len(target_endpoints) :
              /\ probe_mode[target_endpoints[i]] # Absent
              /\ probe_mode[target_endpoints[i]] = probe_mode[target_endpoints[1]]

\* A call of the hybrid manager ranked an endpoint while another endpoint, unhealthy in
\* this call, still holds the latency an earlier call left.
C29_Witness ==
    /\ Ranked
    /\ mgr = "hybrid"
    /\ target_endpoints # <<>>
    /\ \E h \in Hosts :
          /\ \A i \in 1..Len(target_endpoints) : target_endpoints[i] # h
          /\ endpoints[h].latency # Absent
          /\ probe_lat[h] = Absent

\* ------------------------------------------- two calls on one manager
\* Two threads call get_connection on the same manager.  The endpoint dictionaries are
\* shared; each call has its own locals.  No lock is taken anywhere, so the steps of the
\* two calls interleave freely between the statements that read or write a dictionary.
\* A manager with directly probed endpoints that declare no priority; the hybrid manager
\* was constructed with latency_test_retries=1.
InitConcurrent ==
    /\ ConfiguredFrom(EndpointRecords)
    /\ connection_settings = DefaultSettings(mgr)
    /\ retries = IF mgr = "hybrid" THEN 1 ELSE latency_test_retries
    /\ dsql_available
    /\ \A h \in Hosts : endpoints[h].priority = Absent /\ endpoints[h].health_check_id = Absent

ConcurrentFrame ==
    UNCHANGED <<mgr, dsql_available, connection_settings, retries, log, token_text, probe,
                evaluators, best, health_check_cache, now, pc, idx, locals, result, trace, health_eval,
                probe_lat, probe_mode, evals, fresh, ctor>>

\* Thread c enters get_connection.
CallerStarts(c) ==
    /\ callers[c].pc = "idle"
    /\ callers' = [callers EXCEPT ![c].pc = IF mgr = "simple" THEN "check" ELSE "health",
                                  ![c].idx = 1]
    /\ UNCHANGED endpoints
    /\ ConcurrentFrame

\* simple: one iteration of _check_endpoints in thread c.
CallerChecksEndpoint(c) ==
    /\ callers[c].pc = "check"
    /\ callers[c].idx <= NumEndpoints
    /\ \E sample \in Samples :
          LET h == callers[c].idx
              m == measure_endpoint(sample)
          IN  /\ endpoints' = [endpoints EXCEPT ![h].latency = Some(m[1]),
                                                ![h].is_healthy = Some(m[2])]
              /\ callers' = [callers EXCEPT ![c].idx = h + 1,
                                            ![c].own_latency[h] = Some(m[1]),
                                            ![c].own_health[h] = Some(m[2])]
    /\ ConcurrentFrame

\* simple: thread c filters and sorts, reading the shared dictionaries.
CallerSelectsTargets(c) ==
    /\ callers[c].pc = "check"
    /\ callers[c].idx > NumEndpoints
    /\ callers' = [callers EXCEPT ![c].pc = "attempt",
                                  ![c].idx = 1,
                                  ![c].healthy_endpoints = SimpleHealthyFilter(endpoints),
                                  ![c].target_endpoints = SimpleTargets(endpoints)]
    /\ UNCHANGED endpoints
    /\ ConcurrentFrame

\* hybrid: one iteration of get_healthy_endpoints in thread c (check_direct_health).
CallerChecksHealth(c) ==
    /\ callers[c].pc = "health"
    /\ callers[c].idx <= NumEndpoints
    /\ \E sample \in Samples :
          LET h == callers[c].idx
              ok == Succeeded(sample)
          IN  callers' = [callers EXCEPT
                             ![c].idx = h + 1,
                             ![c].own_health[h] = Some(ok),
                             ![c].healthy_endpoints =
                                 IF ok THEN Append(@, h) ELSE @]
    /\ UNCHANGED endpoints
    /\ ConcurrentFrame

\* hybrid: thread c found no healthy endpoint and raises.
CallerFindsNoneHealthy(c) ==
    /\ callers[c].pc = "health"
    /\ callers[c].idx > NumEndpoints
    /\ callers[c].healthy_endpoints = <<>>
    /\ callers' = [callers EXCEPT ![c].pc = "raised"]
    /\ UNCHANGED endpoints
    /\ ConcurrentFrame

\* hybrid: thread c goes on to measure its healthy endpoints.
CallerStartsMeasuring(c) ==
    /\ callers[c].pc = "health"
    /\ callers[c].idx > NumEndpoints
    /\ callers[c].healthy_endpoints # <<>>
    /\ callers' = [callers EXCEPT ![c].pc = "measure", ![c].idx = 1]
    /\ UNCHANGED endpoints
    /\ ConcurrentFrame

\* hybrid: endpoint['latency'] = self.measure_latency(endpoint) in thread c.
CallerMeasuresLatency(c) ==
    /\ callers[c].pc = "measure"
    /\ callers[c].idx <= Len(callers[c].healthy_endpoints)
    /\ \E samples \in [1..retries -> Samples] :
          LET h == callers[c].healthy_endpoints[callers[c].idx]
              l == measure_latency(samples)
          IN  /\ endpoints' = [endpoints EXCEPT ![h].latency = Some(l)]
              /\ callers' = [callers EXCEPT ![c].idx = @ + 1,
                                            ![c].own_latency[h] = Some(l)]
    /\ ConcurrentFrame

\* hybrid: thread c sorts its healthy endpoints, reading the shared dictionaries.
CallerSortsHealthy(c) ==
    /\ callers[c].pc = "measure"
    /\ callers[c].idx > Len(callers[c].healthy_endpoints)
    /\ LET ranked == sorted(callers[c].healthy_endpoints, HybridSortKey(endpoints))
       IN  callers' = [callers EXCEPT ![c].pc = "attempt",
                                      ![c].idx = 1,
                                      ![c].healthy_endpoints = ranked,
                                      ![c].target_endpoints = ranked]
    /\ UNCHANGED endpoints
    /\ ConcurrentFrame

\* Thread c attempts its next target (token and connection-open): it returns the
\* connection or goes on to the next target.
CallerAttempts(c) ==
    /\ callers[c].pc = "attempt"
    /\ callers[c].idx <= Len(callers[c].target_endpoints)
    /\ \E ok \in BOOLEAN :
          callers' = IF ok THEN [callers EXCEPT ![c].pc = "returned"]
                     ELSE [callers EXCEPT ![c].idx = @ + 1]
    /\ UNCHANGED endpoints
    /\ ConcurrentFrame

\* Thread c has failed on every target and raises.
CallerRaisesAllFailed(c) ==
    /\ callers[c].pc = "attempt"
    /\ callers[c].idx > Len(callers[c].target_endpoints)
    /\ callers' = [callers EXCEPT ![c].pc = "raised"]
    /\ UNCHANGED endpoints
    /\ ConcurrentFrame

NextConcurrent ==
    \E c \in Callers :
        \/ CallerStarts(c)
        \/ CallerChecksEndpoint(c)
        \/ CallerSelectsTargets(c)
        \/ CallerChecksHealth(c)
        \/ CallerFindsNoneHealthy(c)
        \/ CallerStartsMeasuring(c)
        \/ CallerMeasuresLatency(c)
        \/ CallerSortsHealthy(c)
        \/ CallerAttempts(c)
        \/ CallerRaisesAllFailed(c)

SpecConcurrent == InitConcurrent /\ [][NextConcurrent]_vars

\* The endpoint dictionaries as call c measured them: its own health and latency in
\* place of whatever the shared dictionaries hold.
OwnView(c) ==
    [h \in Hosts |-> [endpoints[h] EXCEPT !.latency = callers[c].own_latency[h],
                                          !.is_healthy = callers[c].own_health[h]]]

\* C30: a call that has ranked its targets ranked them as its own measurements rank
\* them, whatever the other call wrote meanwhile.
C30_RanksOnOwnMeasurements ==
    \A c \in Callers :
        callers[c].pc \in {"attempt", "returned"} =>
            callers[c].target_endpoints =
                IF mgr = "simple" THEN SimpleTargets(OwnView(c))
                ELSE sorted(SimpleHealthyFilter(OwnView(c)), HybridSortKey(OwnView(c)))

\* ------------------------------------------- concurrent health evaluations
\* Two threads call check_route53_health on the same manager.  The cache is a plain dict
\* and no lock is taken: a call reads the clock, looks the id up, queries Route 53 and
\* writes the entry in separate statements, and the two calls and the clock interleave
\* between them.
InitEvaluators == InitHealth

EvaluatorFrame ==
    UNCHANGED <<mgr, dsql_available, connection_settings, retries, log, token_text, probe,
                callers, best, endpoints, now, pc, idx, locals, result, trace, health_eval,
                probe_lat, probe_mode, evals, fresh, ctor>>

\* now = time.time(): thread c enters check_route53_health(id) and reads the clock.
EvaluatorReadsClock(c) ==
    /\ evaluators[c].pc = "idle"
    /\ \E h \in Hosts :
          evaluators' = [evaluators EXCEPT ![c] =
              [pc |-> "lookup", id |-> endpoints[h].health_check_id[1], now |-> now,
               is_healthy |-> FALSE]]
    /\ UNCHANGED health_check_cache
    /\ EvaluatorFrame

\* The cache lookup: a hit returns the cached result, a miss goes on to the query.
EvaluatorLooksUp(c) ==
    /\ evaluators[c].pc = "lookup"
    /\ evaluators' =
          IF CacheHit(health_check_cache, evaluators[c].id, evaluators[c].now)
          THEN [evaluators EXCEPT ![c].pc = "idle",
                                  ![c].is_healthy = health_check_cache[evaluators[c].id][1][1]]
          ELSE [evaluators EXCEPT ![c].pc = "query"]
    /\ UNCHANGED health_check_cache
    /\ EvaluatorFrame

\* get_health_check_status answers: an error or an empty response returns False, any
\* other response yields is_healthy.
EvaluatorQueries(c) ==
    /\ evaluators[c].pc = "query"
    /\ \E resp \in Responses :
          evaluators' =
              IF ~resp.ok \/ resp.observations = <<>>
              THEN [evaluators EXCEPT ![c].pc = "idle", ![c].is_healthy = FALSE]
              ELSE [evaluators EXCEPT ![c].pc = "write", ![c].is_healthy = FreshHealth(resp)]
    /\ UNCHANGED health_check_cache
    /\ EvaluatorFrame

\* self.health_check_cache[health_check_id] = (is_healthy, now), with the clock value
\* read on entry, and the call returns.
EvaluatorWrites(c) ==
    /\ evaluators[c].pc = "write"
    /\ health_check_cache' =
          [health_check_cache EXCEPT
              ![evaluators[c].id] = Some(<<evaluators[c].is_healthy, evaluators[c].now>>)]
    /\ evaluators' = [evaluators EXCEPT ![c].pc = "idle"]
    /\ EvaluatorFrame

\* The clock advances at any moment.
ClockAdvances ==
    /\ now < MaxTime
    /\ now' = now + 1
    /\ UNCHANGED <<mgr, dsql_available, connection_settings, retries, log, token_text,
                   probe, callers, evaluators, best, endpoints, health_check_cache, pc, idx,
                   locals, result, trace, health_eval, probe_lat, probe_mode, evals,
                   fresh, ctor>>

NextEvaluators ==
    \/ \E c \in Callers :
          \/ EvaluatorReadsClock(c)
          \/ EvaluatorLooksUp(c)
          \/ EvaluatorQueries(c)
          \/ EvaluatorWrites(c)
    \/ ClockAdvances

SpecEvaluators == InitEvaluators /\ [][NextEvaluators]_vars

\* C31: the timestamp of the cache entry of an id never decreases, and an entry is
\* never removed.
C31_TimestampNeverDecreases ==
    [][\A id \in Hosts :
          health_check_cache[id] # Absent =>
              /\ health_check_cache'[id] # Absent
              /\ health_check_cache'[id][1][2] >= health_check_cache[id][1][2]]_vars

\* ------------------------------------------- termination of a call
\* One get_connection call whose steps are all taken: the thread that runs the call is
\* scheduled until the call returns or raises, and every external call (TCP connect,
\* Route 53 query, token minting, psycopg2.connect) answers or times out.  Endpoints
\* declare no priority; the hybrid manager was constructed with latency_test_retries=1.
InitLive ==
    /\ ConfiguredFrom(EndpointRecords)
    /\ connection_settings = DefaultSettings(mgr)
    /\ retries = IF mgr = "hybrid" THEN 1 ELSE latency_test_retries
    /\ \A h \in Hosts : endpoints[h].priority = Absent

SpecLive == InitLive /\ [][Next]_vars /\ WF_vars(Next)

\* The events of one kind in the trace of the call.
EventsOf(op) == SelectSeq(trace, LAMBDA e : e.op = op)
\* No endpoint occurs twice among the events.
EachHostOnce(events) ==
    \A i, j \in 1..Len(events) : events[i].host = events[j].host => i = j

\* The call makes at most one mint and one connection-open per configured endpoint.
AttemptsBounded ==
    /\ Len(EventsOf("mint")) <= NumEndpoints
    /\ Len(EventsOf("open")) <= NumEndpoints
    /\ EachHostOnce(EventsOf("mint"))
    /\ EachHostOnce(EventsOf("open"))

\* C32: every get_connection call ends, returning a connection or raising, and it never
\* makes more mint calls or more connection-open calls than there are configured
\* endpoints, nor two for the same endpoint.
C32_TerminatesWithinBound ==
    /\ <>Ended
    /\ []AttemptsBounded

\* A call ended by raising after it had minted a token and opened a connection for
\* every configured endpoint, each of which failed.
C32_Witness ==
    /\ pc = "raised"
    /\ Len(EventsOf("open")) = NumEndpoints
    /\ Len(EventsOf("mint")) = NumEndpoints
    /\ \A i \in 1..Len(trace) : trace[i].op = "open" => ~trace[i].ok

\* ------------------------------------------- health and latency of the simple manager
\* The _check_endpoints pass of the running call is over.
CheckPassDone == pc \in {"mint", "open", "returned", "raised"} \/ (pc = "check" /\ idx > NumEndpoints)

\* C33: in the simple manager, once _check_endpoints has passed over the endpoints, every
\* endpoint dictionary holds is_healthy and latency with is_healthy true iff the latency
\* is finite; when the pass found every endpoint unhealthy, every latency is infinite
\* and the targets of the call are the configured endpoints in configured order.
C33_HealthyIffFinite ==
    (mgr = "simple" /\ CheckPassDone) =>
        /\ \A h \in Hosts :
              /\ endpoints[h].is_healthy # Absent
              /\ endpoints[h].latency # Absent
              /\ endpoints[h].is_healthy[1] <=> endpoints[h].latency[1] < Inf
        /\ (AllUnhealthy /\ Ranked) =>
              /\ \A h \in Hosts : endpoints[h].latency = Some(Inf)
              /\ target_endpoints = [h \in Hosts |-> h]

\* A call of the simple manager found every endpoint unhealthy and, going through
\* them in configured order, is opening a connection to the last one.
C33_Witness ==
    /\ mgr = "simple"
    /\ AllUnhealthy
    /\ pc = "open"
    /\ idx = NumEndpoints
    /\ target_endpoints = [h \in Hosts |-> h]
    /\ \A h \in Hosts : endpoints[h].latency = Some(Inf)

\* ------------------------------------------- get_best_endpoint
\* get_best_endpoint returns None when no endpoint is healthy.
None == 0

\* key=lambda x: (x['latency'], x.get('priority', 999)) of get_best_endpoint
BestSortKey_PriorityFirst(eps) ==
    [h \in Hosts |-> <<Get(eps[h].priority, DefaultPriority), Get(eps[h].latency, Inf)>>]
BestSortKey(eps) ==
    [h \in Hosts |-> <<Get(eps[h].latency, Inf), Get(eps[h].priority, DefaultPriority)>>]

\* A hybrid manager with a DSQL client, constructed with latency_test_retries=1.
InitBest ==
    /\ ConfiguredFrom(EndpointRecords)
    /\ connection_settings = DefaultSettings(mgr)
    /\ retries = 1
    /\ mgr = "hybrid"
    /\ dsql_available

\* get_best_endpoint(), called when the get_connection call has ended, with the network
\* answering as it answered that call: is_endpoint_healthy gives each endpoint the
\* health, and measure_latency the latency, that get_connection was given.  It writes
\* the latency of the healthy endpoints, sorts its own list and returns its head.
GetBestEndpoint ==
    /\ Ended
    /\ best = Absent
    /\ LET healthy == SelectSeq([h \in Hosts |-> h], LAMBDA h : health_eval[h] = Some(TRUE))
           measured == [h \in Hosts |->
                           IF health_eval[h] = Some(TRUE)
                           THEN [endpoints[h] EXCEPT !.latency = probe_lat[h]]
                           ELSE endpoints[h]]
       IN  IF healthy = <<>>
           THEN /\ best' = Some(None)
                /\ UNCHANGED endpoints
           ELSE /\ endpoints' = measured
                /\ best' = Some(sorted(healthy, BestSortKey(measured))[1])
    /\ UNCHANGED <<mgr, dsql_available, connection_settings, retries, log, token_text,
                   probe, callers, evaluators, health_check_cache, now, pc, idx, locals,
                   result, trace, health_eval, probe_lat, probe_mode, evals, fresh, ctor>>

NextBest ==
    \/ GetConnection
    \/ HealthRoute53
    \/ HealthDirect
    \/ NoHealthyEndpoints
    \/ StartMeasuring
    \/ MeasureLatency
    \/ SortHealthy
    \/ MintToken
    \/ OpenConnection
    \/ RaiseAllFailed
    \/ Tick
    \/ GetBestEndpoint

SpecBest == InitBest /\ [][NextBest]_vars

\* C34: get_best_endpoint, given the health results and latencies a get_connection call
\* was given, returns the endpoint that call attempted first, and returns None exactly
\* when that call raised for want of a healthy endpoint.
C34_BestIsFirstAttempted ==
    best # Absent =>
        /\ best[1] = None <=> (pc = "raised" /\ result.msg = "no_healthy")
        /\ best[1] # None =>
              /\ target_endpoints # <<>>
              /\ best[1] = target_endpoints[1]
              /\ trace # <<>>
              /\ best[1] = trace[1].host

\* get_best_endpoint returned the second configured endpoint, which get_connection had
\* attempted first because of its priority, both endpoints having the same latency.
C34_Witness ==
    /\ best = Some(2)
    /\ Len(target_endpoints) = 2
    /\ endpoints[1].latency = endpoints[2].latency
    /\ endpoints[2].priority # Absent

\* ------------------------------------------- the configured endpoint list
\* A manager on which a caller makes, one after the other, a health evaluation of one
\* endpoint, a get_connection call and a get_best_endpoint call (the latter two of the
\* hybrid manager only).  Endpoints declare no priority; the hybrid manager was
\* constructed with latency_test_retries=1.
InitFrame ==
    /\ ConfiguredFrom(EndpointRecords)
    /\ connection_settings = DefaultSettings(mgr)
    /\ retries = IF mgr = "hybrid" THEN 1 ELSE latency_test_retries
    /\ dsql_available
    /\ \A h \in Hosts : endpoints[h].priority = Absent

EvaluateBeforeCall ==
    /\ mgr = "hybrid"
    /\ probe = Absent
    /\ IsEndpointHealthy

BestAfterCall ==
    /\ mgr = "hybrid"
    /\ GetBestEndpoint

NextFrame ==
    \/ Next
    \/ EvaluateBeforeCall
    \/ BestAfterCall

SpecFrame == InitFrame /\ [][NextFrame]_vars

\* The configured part of an endpoint dictionary: its keys other than latency and
\* is_healthy.
Configured(e) == [e EXCEPT !.latency = Absent, !.is_healthy = Absent]

\* C35: no step of a health evaluation, a get_connection call or a get_best_endpoint
\* call changes the length or the order of the configured endpoint list or any key of
\* an endpoint dictionary other than latency and is_healthy.
C35_ConfigurationUnchanged ==
    [][/\ DOMAIN endpoints' = DOMAIN endpoints
       /\ \A h \in DOMAIN endpoints : Configured(endpoints'[h]) = Configured(endpoints[h])]_vars

\* get_best_endpoint has returned the second configured endpoint after a get_connection
\* call ranked it first, and both endpoint dictionaries carry a latency.
C35_Witness ==
    /\ best = Some(2)
    /\ target_endpoints = <<2, 1>>
    /\ probe # Absent
    /\ \A h \in Hosts : endpoints[h].latency # Absent

====
